---------------------------- MODULE Spec2Model ----------------------------
(***************************************************************************)
(* State-machine model of gateware/spi.py: the SpiMaster and SpiSlave      *)
(* engines, their clock domains (sys, spi, spislave) and the registers     *)
(* that cross between them.  Every clock domain is one action; the two     *)
(* domains of an engine interleave freely.  A 16-bit Signal is a number in *)
(* 0..65535; Cat(b, x[:15]) is (2*x + b) % 65536 and x[15] is x \div 2^15. *)
(* Names of the master carry the prefix m_, names of the slave s_.         *)
(***************************************************************************)
EXTENDS Integers, Naturals, Sequences, FiniteSets

\* ------------------------------------------------------------ bounds
\* Host writes of control.go that take it from 0 to 1.
MaxCmds == 1
\* TxWord values the hosts write: WordAt(0) .. WordAt(MaxWordIdx).
MaxWordIdx == 1
\* Changes of the master's data-in while the environment drives it.
MaxMisoFlips == 1
\* Frames (chip-select falls) the environment drives into a lone slave.
MaxFrames == 2
\* Host 0->1 writes of control.go of a host that commands again while the
\* master is busy.
MaxRises == 2

\* ------------------------------------------------------------ words
\* Signal(16): the width of tx_r, rx_r, txrx and the CSR words.
WordBits == 16
\* (a counter that is not loaded on entry to RUN)
SpicountNotLoaded == 15 - 15

\* spicount is loaded with 15 on the IDLE -> RUN transition.
SpicountLoad == 15

\* 2^16 and 2^15: the modulus of a Signal(16) and the weight of its bit 15.
WordMod == 65536
TopWeight == 32768

\* (a driver that presents bit 0 instead of bit 15)
TopBitIsBit0(x) == x % 2

\* x[15]: the top bit of a 16-bit signal.
TopBit(x) == x \div TopWeight

\* (a shift register that shifts right: b enters at bit 15)
ShiftInRight(x, b) == (x \div 2) + b * 32768

\* Cat(b, x[:15]): shift left by one, b enters at bit 0, bit 15 is dropped.
ShiftIn(x, b) == (2 * x + b) % WordMod

\* The value of a sequence of bits read MSB first, as a shift register that
\* started from `start` accumulates it.
RECURSIVE Accumulate(_, _)
Accumulate(start, bits) ==
    IF bits = <<>> THEN start
    ELSE Accumulate((2 * start + Head(bits)) % 65536, Tail(bits))

\* The bits of a 16-bit word, bit 15 first.
RECURSIVE BitsFrom(_, _)
BitsFrom(w, n) ==
    IF n = 0 THEN <<>> ELSE <<w \div 32768>> \o BitsFrom((2 * w) % 65536, n - 1)
BitsOf(w) == BitsFrom(w, 16)

\* The words a host writes into a tx CSR.
WordAt(i) == (i * 43981) % 65536
HostWords == {WordAt(i) : i \in 0..MaxWordIdx}

VARIABLES
    \* pads
    csn, mosi, miso,
    \* the bits the bus master of a lone slave has yet to drive on data-in
    e_tx_r,
    \* SpiMaster, sys domain
    m_tx_storage, m_tx_re, m_go, m_intena, m_tip_m, m_status_tip, m_txfull_m,
    m_status_txfull,
    \* SpiMaster, spi domain
    m_go_m, m_go_r, m_go_d, m_txw_m, m_tx_written,
    m_fsm, m_spicount, m_tx_r, m_rx_r, m_tip_r, m_txfull_r,
    \* SpiSlave, sys domain
    s_tx_storage, s_rx_we, s_clrerr, s_tip_d, s_rxfull_r, s_rxover_r,
    \* SpiSlave, spislave domain
    s_csn_d, s_txrx, s_rx_status,
    \* the half period of the shared clock, when master and slave are wired
    phase,
    \* observers: what the hosts and the pads did, for stating the properties
    o_nrise, o_nstart, o_W, o_mosi_log, o_miso_log, o_nshift, o_nignored,
    o_flips,
    o_frames, o_frame_in, o_unread, o_S, o_clr_noop, o_T, o_L, o_rd

padVars == <<csn, mosi, miso, e_tx_r>>
mSysVars == <<m_tx_storage, m_tx_re, m_go, m_intena, m_tip_m, m_status_tip, m_txfull_m,
              m_status_txfull>>
mSpiVars == <<m_go_m, m_go_r, m_go_d, m_txw_m, m_tx_written, m_fsm, m_spicount,
              m_tx_r, m_rx_r, m_tip_r, m_txfull_r>>
sSysVars == <<s_tx_storage, s_rx_we, s_clrerr, s_tip_d, s_rxfull_r, s_rxover_r>>
sSpiVars == <<s_csn_d, s_txrx, s_rx_status>>
mObsVars == <<o_nrise, o_nstart, o_W, o_mosi_log, o_miso_log, o_nshift,
              o_nignored>>
sObsVars == <<o_frames, o_frame_in, o_unread, o_S, o_clr_noop, o_T, o_L,
              o_rd>>
vars == <<padVars, mSysVars, mSpiVars, sSysVars, sSpiVars, phase, mObsVars,
          sObsVars, o_flips>>

\* ------------------------------------------------------------ reset state
Init ==
    /\ csn = 1 /\ mosi = 0 /\ miso = 0 /\ e_tx_r = 0
    /\ m_tx_storage = 0 /\ m_tx_re = 0 /\ m_go = 0 /\ m_intena = 0
    /\ m_tip_m = 0 /\ m_status_tip = 0 /\ m_txfull_m = 0 /\ m_status_txfull = 0
    /\ m_go_m = 0 /\ m_go_r = 0 /\ m_go_d = 0 /\ m_txw_m = 0 /\ m_tx_written = 0
    /\ m_fsm = "IDLE" /\ m_spicount = 0 /\ m_tx_r = 0 /\ m_rx_r = 0
    /\ m_tip_r = 0 /\ m_txfull_r = 0
    /\ s_tx_storage = 0 /\ s_rx_we = 0 /\ s_clrerr = 0 /\ s_tip_d = 0
    /\ s_rxfull_r = 0 /\ s_rxover_r = 0
    /\ s_csn_d = 0 /\ s_txrx = 0 /\ s_rx_status = 0
    /\ phase = 0
    /\ o_nrise = 0 /\ o_nstart = 0 /\ o_W = 0 /\ o_mosi_log = <<>>
    /\ o_miso_log = <<>> /\ o_nshift = 0 /\ o_nignored = 0 /\ o_flips = 0
    /\ o_frames = 0 /\ o_frame_in = <<>> /\ o_unread = 0 /\ o_S = 0
    /\ o_clr_noop = 0 /\ o_T = 0 /\ o_L = 0 /\ o_rd = "none"

\* ------------------------------------------------------------ SpiMaster
\* (a trigger on the level of the synchronized go)
go_level == m_go_r = 1

\* go_edge = go_r & ~go_d
go_edge == m_go_r = 1 /\ m_go_d = 0

\* csn = csn_r (combinational)
csn_r == csn

\* The sys-domain registers every sys tick updates: the two stages of the
\* MultiRegs that carry tip_r and txfull_r to the status CSR.
MSysSync ==
    /\ m_tip_m' = m_tip_r
    /\ m_status_tip' = m_tip_m
    /\ m_txfull_m' = m_txfull_r
    /\ m_status_txfull' = m_txfull_m

\* What a sys edge that falls alone leaves as it is: the pads, the other
\* domains and what the observers note on spi edges.
MSysAlone ==
    UNCHANGED <<padVars, mSpiVars, sSysVars, sSpiVars, phase, o_nstart, o_W,
                o_mosi_log, o_miso_log, o_nshift, o_nignored, sObsVars,
                o_flips>>

\* The sys domain on an edge on which the host accesses no CSR of the master.
MHostIdleStep ==
    /\ MSysSync
    /\ m_tx_re' = 0
    /\ UNCHANGED <<m_tx_storage, m_go, m_intena, o_nrise>>

\* The sys domain on an edge on which the host writes the tx CSR: storage
\* takes the word and re pulses for that cycle.
MHostWriteTxStep ==
    \E w \in HostWords :
        /\ MSysSync
        /\ m_tx_storage' = w
        /\ m_tx_re' = 1
        /\ UNCHANGED <<m_go, m_intena, o_nrise>>

\* The sys domain on an edge on which the host writes the control CSR with
\* go = g and intena = i; the host raises go at most n times.
MHostControlStep(gs, is, n) ==
    \E g \in gs, i \in is :
        /\ (m_go = 0 /\ g = 1) => o_nrise < n
        /\ MSysSync
        /\ m_go' = g
        /\ m_intena' = i
        /\ m_tx_re' = 0
        /\ o_nrise' = IF m_go = 0 /\ g = 1 THEN o_nrise + 1 ELSE o_nrise
        /\ UNCHANGED m_tx_storage

\* The sys domain on any sys edge of the master.
MHostStep(gs, is, n) ==
    \/ MHostIdleStep
    \/ MHostWriteTxStep
    \/ MHostControlStep(gs, is, n)

\* A sys tick, apart from any spi edge, on which the host accesses no CSR.
MHostIdle == MHostIdleStep /\ MSysAlone

\* A sys tick, apart from any spi edge, on which the host writes tx.
MHostWriteTx == MHostWriteTxStep /\ MSysAlone

\* A sys tick, apart from any spi edge, on which the host writes control.
MHostControlWrite(gs, is, n) == MHostControlStep(gs, is, n) /\ MSysAlone

\* The control write of a host that leaves the interrupt disabled.
MHostControl(gs) == MHostControlWrite(gs, {0}, MaxCmds)

MHostWriteControl == MHostControl({0, 1})

\* The spi-domain MultiRegs of go and tx.re, and the delayed go.
MSpiSync ==
    /\ m_go_m' = m_go
    /\ m_go_r' = m_go_m
    /\ m_go_d' = m_go_r
    /\ m_txw_m' = m_tx_re
    /\ m_tx_written' = m_txw_m

\* (a start that does not raise tip_r)
MIdleGoNoTip ==
    /\ m_fsm = "IDLE" /\ go_edge
    /\ m_fsm' = "RUN"
    /\ m_tx_r' = ShiftIn(m_tx_storage, 0)
    /\ m_spicount' = SpicountLoad
    /\ m_txfull_r' = 0
    /\ m_tip_r' = m_tip_r
    /\ csn' = 0
    /\ mosi' = TopBit(m_tx_storage)
    /\ m_rx_r' = ShiftIn(m_rx_r, miso)
    /\ o_nstart' = o_nstart + 1
    /\ o_W' = m_tx_storage
    /\ o_nshift' = 0
    /\ o_miso_log' = <<<<miso, csn>>>>

\* fsm IDLE with go_edge: start a transaction.
MIdleGo ==
    /\ m_fsm = "IDLE" /\ go_edge
    /\ m_fsm' = "RUN"
    /\ m_tx_r' = ShiftIn(m_tx_storage, 0)
    /\ m_spicount' = SpicountLoad
    /\ m_txfull_r' = 0
    /\ m_tip_r' = 1
    /\ csn' = 0
    /\ mosi' = TopBit(m_tx_storage)
    /\ m_rx_r' = ShiftIn(m_rx_r, miso)
    /\ o_nstart' = o_nstart + 1
    /\ o_W' = m_tx_storage
    /\ o_nshift' = 0
    /\ o_miso_log' = <<<<miso, csn>>>>

\* fsm IDLE without go_edge.
MIdleStay ==
    /\ m_fsm = "IDLE" /\ ~go_edge
    /\ m_tip_r' = 0
    /\ csn' = 1
    /\ m_txfull_r' = IF m_tx_written = 1 THEN 1 ELSE m_txfull_r
    /\ UNCHANGED <<m_fsm, m_tx_r, m_spicount, mosi, m_rx_r>>
    /\ UNCHANGED <<o_nstart, o_W, o_nshift, o_miso_log>>

\* (a RUN state that starts over on a go edge)
MRunShiftRestart ==
    /\ m_fsm = "RUN" /\ m_spicount > 0
    /\ mosi' = TopBit(IF go_edge THEN m_tx_storage ELSE m_tx_r)
    /\ m_tx_r' = ShiftIn(IF go_edge THEN m_tx_storage ELSE m_tx_r, 0)
    /\ m_spicount' = IF go_edge THEN SpicountLoad ELSE m_spicount - 1
    /\ m_rx_r' = ShiftIn(m_rx_r, miso)
    /\ o_nshift' = o_nshift + 1
    /\ o_miso_log' = Append(o_miso_log, <<miso, csn>>)
    /\ UNCHANGED <<m_fsm, m_txfull_r, m_tip_r, csn>>
    /\ UNCHANGED <<o_nstart, o_W>>

\* (a RUN state whose shadow register follows a write of tx)
MRunShiftFollowsTx ==
    /\ m_fsm = "RUN" /\ m_spicount > 0
    /\ mosi' = TopBit(m_tx_r)
    /\ m_tx_r' = IF m_tx_written = 1 THEN m_tx_storage ELSE ShiftIn(m_tx_r, 0)
    /\ m_spicount' = m_spicount - 1
    /\ m_rx_r' = ShiftIn(m_rx_r, miso)
    /\ o_nshift' = o_nshift + 1
    /\ o_miso_log' = Append(o_miso_log, <<miso, csn>>)
    /\ UNCHANGED <<m_fsm, m_txfull_r, m_tip_r, csn>>
    /\ UNCHANGED <<o_nstart, o_W>>

\* fsm RUN with spicount > 0: shift one bit out and one bit in.
MRunShift ==
    /\ m_fsm = "RUN" /\ m_spicount > 0
    /\ mosi' = TopBit(m_tx_r)
    /\ m_tx_r' = ShiftIn(m_tx_r, 0)
    /\ m_spicount' = m_spicount - 1
    /\ m_rx_r' = ShiftIn(m_rx_r, miso)
    /\ o_nshift' = o_nshift + 1
    /\ o_miso_log' = Append(o_miso_log, <<miso, csn>>)
    /\ UNCHANGED <<m_fsm, m_txfull_r, m_tip_r, csn>>
    /\ UNCHANGED <<o_nstart, o_W>>

\* (a RUN state that a cleared go ends early)
MRunDoneOrAbort ==
    /\ m_fsm = "RUN" /\ (m_spicount = 0 \/ m_go_r = 0)
    /\ csn' = 1
    /\ m_tip_r' = 0
    /\ m_fsm' = "IDLE"
    /\ o_miso_log' = Append(o_miso_log, <<miso, csn>>)
    /\ UNCHANGED <<m_tx_r, m_spicount, m_txfull_r, mosi, m_rx_r>>
    /\ UNCHANGED <<o_nstart, o_W, o_nshift>>

\* fsm RUN with spicount = 0: end the transaction.
MRunDone ==
    /\ m_fsm = "RUN" /\ m_spicount = 0
    /\ csn' = 1
    /\ m_tip_r' = 0
    /\ m_fsm' = "IDLE"
    /\ o_miso_log' = Append(o_miso_log, <<miso, csn>>)
    /\ UNCHANGED <<m_tx_r, m_spicount, m_txfull_r, mosi, m_rx_r>>
    /\ UNCHANGED <<o_nstart, o_W, o_nshift>>

\* One tick of the spi domain, and what the pads showed in the bit period
\* that follows it.
MSpiStep ==
    /\ MSpiSync
    /\ (MIdleGo \/ MIdleStay \/ MRunShift \/ MRunDone)
    /\ o_mosi_log' = IF csn' = 1 THEN o_mosi_log
                     ELSE IF csn = 1 THEN <<mosi'>>
                     ELSE Append(o_mosi_log, mosi')
    /\ o_nignored' = IF m_fsm = "RUN" /\ go_edge THEN o_nignored + 1
                     ELSE o_nignored

\* The spi tick of a master whose data-in is driven by the environment.
MSpiTick ==
    /\ MSpiStep
    /\ UNCHANGED <<miso, e_tx_r, mSysVars, sSysVars, sSpiVars, phase, o_nrise,
                   sObsVars, o_flips>>

\* A sys edge and a spi edge on the same instant (the two clocks are
\* commensurate: sysclk = 100 MHz, spiclk = 25 MHz): the registers of both
\* domains are loaded from the values before the edge.
MJointTick(gs, is, n) ==
    /\ MHostStep(gs, is, n)
    /\ MSpiStep
    /\ UNCHANGED <<miso, e_tx_r, sSysVars, sSpiVars, phase, sObsVars, o_flips>>

MSysSpiTick == MJointTick({0, 1}, {0}, MaxCmds)

\* The device on the bus changes the level it drives on the master's data-in.
EnvMiso ==
    /\ o_flips < MaxMisoFlips
    /\ miso' = 1 - miso
    /\ o_flips' = o_flips + 1
    /\ UNCHANGED <<csn, mosi, e_tx_r, mSysVars, mSpiVars, sSysVars, sSpiVars,
                   phase, mObsVars, sObsVars>>

Next ==
    \/ MHostIdle
    \/ MHostWriteTx
    \/ MHostWriteControl
    \/ MSpiTick
    \/ MSysSpiTick
    \/ EnvMiso

Spec == Init /\ [][Next]_vars

\* The control write of a host that commands one transaction: it writes
\* go = 1.
MHostGo == MHostControl({1})

\* The same host on a sys edge that coincides with a spi edge.
MGoSysSpiTick == MJointTick({1}, {0}, MaxCmds)

\* A master that runs one transaction while the device on the bus drives its
\* data-in.
NextRx ==
    \/ MHostIdle
    \/ MHostWriteTx
    \/ MHostGo
    \/ MSpiTick
    \/ MGoSysSpiTick
    \/ EnvMiso

SpecRx == Init /\ [][NextRx]_vars

\* The control write of a host that raises go again while the master may be
\* busy, and that enables or disables the interrupt.
MHostCommand == MHostControlWrite({0, 1}, {0, 1}, MaxRises)

\* The same host on a sys edge that coincides with a spi edge.
MBusySysSpiTick == MJointTick({0, 1}, {0, 1}, MaxRises)

\* A master whose data-in is tied low, under a host that writes tx and
\* control at any time.
NextBusy ==
    \/ MHostIdle
    \/ MHostWriteTx
    \/ MHostCommand
    \/ MSpiTick
    \/ MBusySysSpiTick

SpecBusy == Init /\ [][NextBusy]_vars

\* The registers of the spi domain and the pads they drive.
spiRegs == <<csn, mosi, mSpiVars>>

\* The spi clock is free-running: a spi edge that would change the spi
\* domain, alone or on the instant of a sys edge, is not put off forever.
\* Nothing is asked of the host, which may stay silent.
SpecBusyFair == SpecBusy /\ WF_spiRegs(MSpiTick \/ MBusySysSpiTick)

\* ------------------------------------------------------------ SpiSlave
\* tip_r = ~csn (combinational, from the pad)
s_tip_r == 1 - csn

\* donepulse = ~tip_r & tip_d
donepulse == s_tip_r = 0 /\ s_tip_d = 1

\* (a full flag whose set by the done pulse takes priority over a host read)
RxFullNextDoneFirst(we, done, full) ==
    IF done THEN 1 ELSE IF we = 1 THEN 0 ELSE full

\* rxfull_r after a sys tick: a host read of rx clears it, else the done
\* pulse sets it, else it holds.
RxFullNext(we, done, full) ==
    IF we = 1 THEN 0 ELSE IF done THEN 1 ELSE full

\* (an overrun flag that a host read of rx clears)
RxOverNextReadClears(we, tip, full, clr, over) ==
    IF we = 1 THEN 0
    ELSE IF tip = 1 /\ full = 1 THEN 1
    ELSE IF clr = 1 THEN 0
    ELSE over

\* (an overrun flag whose clear takes priority over its set)
RxOverNextClearFirst(we, tip, full, clr, over) ==
    IF we = 1 THEN over
    ELSE IF clr = 1 THEN 0
    ELSE IF tip = 1 /\ full = 1 THEN 1
    ELSE over

\* rxover_r after a sys tick: untouched on a host read of rx, else set while
\* tip_r & rxfull_r, else cleared by clrerr, else it holds.
RxOverNext(we, tip, full, clr, over) ==
    IF we = 1 THEN over
    ELSE IF tip = 1 /\ full = 1 THEN 1
    ELSE IF clr = 1 THEN 0
    ELSE over

\* One tick of the slave's sys domain.  rx.we and control.clrerr are the
\* strobes of the cycle that this tick ends; the host's next access sets the
\* strobes of the cycle that follows and may store a new tx word.
SSysStep(wes, clrs) ==
    \E we \in wes, clr \in clrs, w \in HostWords \cup {s_tx_storage} :
        /\ s_tip_d' = s_tip_r
        /\ s_rxfull_r' = RxFullNext(s_rx_we, donepulse, s_rxfull_r)
        /\ s_rxover_r' = RxOverNext(s_rx_we, s_tip_r, s_rxfull_r, s_clrerr,
                                    s_rxover_r)
        /\ s_rx_we' = we
        /\ s_clrerr' = clr
        /\ s_tx_storage' = w
        /\ o_unread' = IF s_rx_we = 1 THEN 0 ELSE o_unread
        /\ o_clr_noop' = IF s_clrerr = 1 /\ s_rxover_r = 0 THEN 1 ELSE 0
        /\ o_rd' = IF s_rx_we = 0 THEN "none"
                   ELSE IF donepulse THEN "done"
                   ELSE IF s_tip_r = 1 THEN "frame" ELSE "idle"
        /\ UNCHANGED <<padVars, mSysVars, mSpiVars, sSpiVars, phase, mObsVars,
                       o_frames, o_frame_in, o_S, o_T, o_L, o_flips>>

\* The sys tick of a slave whose host reads rx, pulses clrerr and writes tx.
SSysTick == SSysStep({0, 1}, {0, 1})

\* (a slave that shifts zeros in, whatever data-in shows)
SlaveShiftNoData(x, b) == ShiftIn(x, 0)

\* Cat(mosi, txrx[0:15])
SlaveShift(x, b) == ShiftIn(x, b)

\* (a shift register that is reloaded on the rising edge of csn alone)
TxrxNextEdgeOnly(c, cd, txrx, m, storage) ==
    IF c = 0 THEN SlaveShift(txrx, m)
    ELSE IF cd = 0 THEN storage ELSE txrx

\* txrx after a spislave tick: shifted while csn is 0, else loaded from
\* tx.storage, on every tick on which csn is 1.
TxrxNext(c, cd, txrx, m, storage) ==
    IF c = 0 THEN SlaveShift(txrx, m) ELSE storage

\* rx.status after a spislave tick: txrx on the rising edge of csn.
RxStatusNext(c, cd, txrx, status) ==
    IF c = 1 /\ cd = 0 THEN txrx ELSE status

\* One tick of the spislave domain (the edge of sclk), and the level that
\* miso = txrx[15] shows after it.
SSlaveStep ==
    /\ s_csn_d' = csn
    /\ s_rx_status' = RxStatusNext(csn, s_csn_d, s_txrx, s_rx_status)
    /\ s_txrx' = TxrxNext(csn, s_csn_d, s_txrx, mosi, s_tx_storage)
    /\ miso' = TopBit(s_txrx')
    /\ o_frame_in' = IF csn = 0 THEN Append(o_frame_in, mosi) ELSE o_frame_in
    /\ o_T' = IF csn = 1 /\ s_csn_d = 0 THEN s_tx_storage ELSE o_T
    /\ o_L' = IF csn = 1 THEN s_tx_storage ELSE o_L

\* The sclk edge of a slave whose bus is driven by the environment: a bus
\* master that clocks 16 bits into a frame and, between two edges of sclk,
\* drives the next bit of its word on data-in.
SSlaveTick ==
    /\ csn = 0 => Len(o_frame_in) < WordBits
    /\ SSlaveStep
    /\ IF csn = 0
       THEN mosi' = TopBit(e_tx_r) /\ e_tx_r' = ShiftIn(e_tx_r, 0)
       ELSE UNCHANGED <<mosi, e_tx_r>>
    /\ UNCHANGED <<csn, mSysVars, mSpiVars, sSysVars, phase, mObsVars,
                   o_frames, o_unread, o_S, o_clr_noop, o_rd, o_flips>>

\* What the observers of the slave note when chip-select falls.
ObserveCsnFall ==
    /\ o_frames' = o_frames + 1
    /\ o_frame_in' = <<>>
    /\ o_unread' = s_rxfull_r
    /\ o_S' = s_txrx

\* The bus master asserts chip-select and drives the top bit of its word: a
\* frame begins.  Chip-select has been deasserted for at least one edge of the
\* free-running sclk.
EnvCsnFall ==
    \E w \in HostWords :
        /\ csn = 1 /\ s_csn_d = 1 /\ o_frames < MaxFrames
        /\ csn' = 0
        /\ mosi' = TopBit(w)
        /\ e_tx_r' = ShiftIn(w, 0)
        /\ ObserveCsnFall
        /\ UNCHANGED <<miso, mSysVars, mSpiVars, sSysVars, sSpiVars, phase,
                       mObsVars, o_clr_noop, o_T, o_L, o_rd, o_flips>>

\* The bus master deasserts chip-select after the 16th bit: the frame ends.
EnvCsnRise ==
    /\ csn = 0 /\ Len(o_frame_in) = WordBits
    /\ csn' = 1
    /\ UNCHANGED <<mosi, miso, e_tx_r, mSysVars, mSpiVars, sSysVars, sSpiVars,
                   phase, mObsVars, sObsVars, o_flips>>

NextSlave ==
    \/ SSysTick
    \/ SSlaveTick
    \/ EnvCsnFall
    \/ EnvCsnRise

SpecSlave == Init /\ [][NextSlave]_vars

\* ------------------------------------------------------------ master wired to slave
\* The ODDR2 drives sclk as the inverted spi clock, and sclk clocks the
\* spislave domain: spi ticks (phase 0) and spislave ticks (phase 1) alternate.
LinkSpiStep ==
    /\ phase = 0
    /\ phase' = 1
    /\ MSpiStep
    /\ IF csn = 1 /\ csn' = 0 THEN ObserveCsnFall
       ELSE UNCHANGED <<o_frames, o_frame_in, o_unread, o_S>>
    /\ UNCHANGED <<miso, e_tx_r, sSysVars, sSpiVars, o_clr_noop, o_T, o_L,
                   o_rd, o_flips>>

\* A spi edge apart from any sys edge of the master.
LinkSpiTick == LinkSpiStep /\ UNCHANGED <<mSysVars, o_nrise>>

\* A spi edge on the instant of a sys edge of the master: both domains load
\* from the values before the edge.  (A sys edge of the slave that coincides
\* with a spi or spislave edge is the same as that edge followed or preceded
\* by the sys tick: the slave's sys domain and the other domains read nothing
\* of each other that the edge changes, tx.storage apart, which the spislave
\* tick reads as it was.)
LinkSysSpiTick == MHostStep({1}, {0}, MaxCmds) /\ LinkSpiStep

LinkSlaveTick ==
    /\ phase = 1
    /\ phase' = 0
    /\ SSlaveStep
    /\ UNCHANGED <<csn, mosi, e_tx_r, mSysVars, mSpiVars, sSysVars, mObsVars,
                   o_frames, o_unread, o_S, o_clr_noop, o_rd, o_flips>>

\* The host of the wired master commands one frame: it writes go = 1.
LinkHostGo == MHostControl({1})

\* The sys tick of the wired slave: its host writes tx.
LinkSysTick == SSysStep({0}, {0})

NextLinked ==
    \/ MHostIdle
    \/ MHostWriteTx
    \/ LinkHostGo
    \/ LinkSysTick
    \/ LinkSpiTick
    \/ LinkSysSpiTick
    \/ LinkSlaveTick

SpecLinked == Init /\ [][NextLinked]_vars

\* ------------------------------------------------------------ properties
\* A master transaction has run to its end.
MDone == m_fsm = "IDLE" /\ o_nstart > 0 /\ Len(o_miso_log) = 17

\* The data-in levels of a log of <<level, csn>> samples.
LevelsOf(log) == [i \in 1..Len(log) |-> log[i][1]]

\* C1: a transaction started by go_edge holds chip-select asserted for
\* exactly 16 bit periods, in which data-out carries the captured TxWord
\* bit 15 first, one bit per period; chip-select is deasserted right after
\* the 16th period.
C1_MosiCarriesWord ==
    /\ m_fsm = "RUN" =>
          /\ csn_r = 0
          /\ Len(o_mosi_log) = 16 - m_spicount
          /\ o_mosi_log = SubSeq(BitsOf(o_W), 1, Len(o_mosi_log))
    /\ m_fsm = "IDLE" =>
          /\ csn_r = 1
          /\ o_nstart > 0 => o_mosi_log = BitsOf(o_W)

C1_Witness ==
    /\ MDone
    /\ o_W = 43981
    /\ o_mosi_log = <<1, 0, 1, 0, 1, 0, 1, 1, 1, 1, 0, 0, 1, 1, 0, 1>>

\* C2 as claimed: after a transaction RxWord is made of the data-in levels of
\* the 16 bit periods in which chip-select was asserted, and of no sample taken
\* with chip-select deasserted.
C2_RxIsWindowBits ==
    MDone => m_rx_r = Accumulate(0, LevelsOf(SelectSeq(o_miso_log,
                                        LAMBDA e : e[2] = 0)))

\* C2 as amended: after a transaction RxWord is made of the data-in levels at
\* the go_edge tick, where chip-select is still deasserted, and at the 15
\* shifting ticks after it, first sample in bit 15; the level of the 16th bit
\* period, present at the tick that ends the transaction, is not sampled.
C2_RxIsSampledBits ==
    MDone =>
        /\ m_rx_r = Accumulate(0, LevelsOf(SubSeq(o_miso_log, 1, 16)))
        /\ o_miso_log[1][2] = 1
        /\ \A i \in 2..17 : o_miso_log[i][2] = 0

C2_Witness ==
    /\ MDone
    /\ o_miso_log[1][1] = 0
    /\ o_miso_log[9][1] = 1
    /\ m_rx_r = 255

\* C3: the FSM leaves IDLE only on a tick where the synchronized go is 1 and
\* was 0 one tick earlier, so there are never more transactions than host
\* 0->1 writes of go: a go left at 1 starts nothing.
C3_OnlyAFreshEdgeStarts ==
    /\ [](o_nstart <= o_nrise)
    /\ [][(m_fsm = "IDLE" /\ m_fsm' = "RUN") => (m_go_r = 1 /\ m_go_d = 0)]_vars

C3_Witness ==
    /\ MDone
    /\ o_nstart = 1 /\ o_nrise = 1
    /\ m_go = 1 /\ m_go_m = 1 /\ m_go_r = 1 /\ m_go_d = 1
    /\ m_status_tip = 0 /\ m_tip_m = 0 /\ m_tip_r = 0

\* Nothing is on its way through the synchronizer of go and no transaction
\* is running.
MQuiescent ==
    /\ m_fsm = "IDLE"
    /\ m_go_m = m_go /\ m_go_r = m_go /\ m_go_d = m_go

\* C4 as claimed: once the system is quiescent there have been as many
\* transactions as host 0->1 writes of go.
C4_OneTransactionPerCommand == MQuiescent => o_nstart = o_nrise

\* C10: spicount is 15 on entry to RUN and falls by one per shifting tick, so
\* RUN with spicount = 0 is reached after 15 shifting ticks and not before.
C10_NoZeroLengthTransaction ==
    m_fsm = "RUN" => (m_spicount = 15 - o_nshift /\ o_nshift \in 0..15)

C10_Witness == m_fsm = "RUN" /\ m_spicount = 0 /\ o_nshift = 15

\* C5 as claimed: a frame that ends while rxFull is clear sets rxFull on the
\* sys tick of its done pulse, whether or not the host reads RxWord on that
\* tick, and the spislave tick that sees chip-select rise commits the 16 bits
\* shifted in during the frame to RxWord.
C5_FrameEndSetsRxFull ==
    /\ [][(SSysTick /\ donepulse /\ s_rxfull_r = 0) => s_rxfull_r' = 1]_vars
    /\ [][(SSlaveTick /\ csn = 1 /\ s_csn_d = 0 /\ o_frames > 0)
              => s_rx_status' = Accumulate(0, o_frame_in)]_vars

\* C6 as claimed: through a frame that begins and ends with rxFull set and
\* RxWord unread, RxWord is left unchanged.
C6_OverrunKeepsRxWord ==
    [][(o_unread = 1 /\ s_rxfull_r = 1) => s_rx_status' = s_rx_status]_vars

\* C7: rxOverrun falls from 1 to 0 only on a sys tick on which the clrerr
\* pulse is asserted; frames, host reads of RxWord and changes of rxFull leave
\* it set.
C7_OverrunSticky ==
    [][(s_rxover_r = 1 /\ s_rxover_r' = 0) => (SSysTick /\ s_clrerr = 1)]_vars

C7_Witness ==
    /\ s_rxover_r = 1
    /\ o_frames = 2 /\ csn = 1 /\ s_csn_d = 1
    /\ s_rxfull_r = 0 /\ s_tip_d = 0

\* C8 as claimed: on a sys tick with the clrerr pulse asserted and rxOverrun
\* at 0, rxOverrun stays 0.
C8_ClearWithoutOverrunKeepsZero ==
    [][(SSysTick /\ s_clrerr = 1 /\ s_rxover_r = 0) => s_rxover_r' = 0]_vars

\* C8 as amended: on a sys tick with the clrerr pulse asserted and rxOverrun
\* at 0, rxOverrun takes the value it takes without the pulse (1 if tip_r and
\* rxfull_r are set and the host does not read RxWord on that tick, else 0),
\* rxFull follows the read and the done pulse alone, and RxWord, txrx and
\* data-out do not change.
C8_ClearWithoutOverrunIsNoOp ==
    [][(SSysTick /\ s_clrerr = 1 /\ s_rxover_r = 0) =>
          /\ s_rxover_r' = IF s_tip_r = 1 /\ s_rxfull_r = 1 /\ s_rx_we = 0
                           THEN 1 ELSE 0
          /\ s_rxfull_r' = IF s_rx_we = 1 THEN 0
                           ELSE IF donepulse THEN 1 ELSE s_rxfull_r
          /\ UNCHANGED <<s_rx_status, s_txrx, miso>>]_vars

\* The last sys tick consumed a clrerr pulse with no overrun pending, and
\* had to decide between the pulse and a new overrun.
C8_Witness ==
    /\ o_clr_noop = 1
    /\ s_rxover_r = 1 /\ s_rxfull_r = 1 /\ csn = 0 /\ s_tip_d = 1

\* A frame between the wired master and slave is over on both sides: the
\* master is back in IDLE and the slave has clocked chip-select high.
LinkFrameOver == MDone /\ s_csn_d = 1

\* C9 as claimed: after one frame the master's RxWord and the slave's RxWord
\* both equal the word the master transmitted.
C9_RoundTripOneFrame ==
    LinkFrameOver => (m_rx_r = o_W /\ s_rx_status = o_W)

\* C9 as amended: after a frame the slave's RxWord equals the word the master
\* transmitted, and the master's RxWord equals the word the slave's shift
\* register held when chip-select fell (the slave's TxWord as loaded before
\* the frame), which is the transmitted word only if the slave's host had
\* stored that word beforehand.
C9_ExchangeOfWords ==
    LinkFrameOver => (s_rx_status = o_W /\ m_rx_r = o_S)

C9_Witness ==
    /\ LinkFrameOver
    /\ o_W = 43981 /\ s_rx_status = 43981 /\ m_rx_r = 43981

\* The spi ticks since the tick that entered RUN.
SpiTicksSinceStart == Len(o_miso_log) - 1

\* C11: once RUN is entered the FSM returns to IDLE, under fair ticking of
\* the spi domain, and it does so on the 16th spi tick after the tick that
\* entered RUN, whatever the host writes meanwhile (go, TxWord, intena); only
\* a spi edge (alone or on the instant of a sys edge) changes the FSM state,
\* so RUN lasts as long as spi does not tick.
C11_RunsToCompletion ==
    /\ (m_fsm = "RUN") ~> (m_fsm = "IDLE")
    /\ [][m_fsm' # m_fsm => MSpiStep]_vars
    /\ [][(m_fsm = "RUN" /\ MSpiStep)
              => SpiTicksSinceStart' = SpiTicksSinceStart + 1]_vars
    /\ [][(m_fsm = "RUN" /\ m_fsm' = "IDLE") => SpiTicksSinceStart' = 16]_vars

\* A transaction is over, on the tick of its end go_r rose again, and since
\* its start the host has raised go a second time, enabled the interrupt and
\* written another TxWord; no sys tick has passed since the end.
C11_Witness ==
    /\ MDone
    /\ o_nrise = 2 /\ o_nstart = 1 /\ o_nignored = 0
    /\ m_go_r = 1 /\ m_go_d = 0
    /\ m_intena = 1
    /\ m_tx_storage # o_W
    /\ m_tip_m = 1

\* C12: a spi tick in RUN on which go_edge is asserted does what a RUN tick
\* does without it (shift and count down, or end the transaction at
\* spicount = 0): tx_r is not reloaded, spicount is not reset, chip-select
\* and data-out go on; spicount is loaded, and tx_r takes a value other than
\* its shift, only on the IDLE -> RUN transition.
C12_EdgeInRunIgnored ==
    /\ [][(MSpiStep /\ m_fsm = "RUN" /\ go_edge) =>
            /\ o_nstart' = o_nstart
            /\ IF m_spicount > 0
               THEN /\ m_fsm' = "RUN" /\ csn' = 0
                    /\ m_tx_r' = ShiftIn(m_tx_r, 0)
                    /\ m_spicount' = m_spicount - 1
                    /\ mosi' = TopBit(m_tx_r)
               ELSE /\ m_fsm' = "IDLE" /\ csn' = 1
                    /\ UNCHANGED <<m_tx_r, m_spicount, mosi>>]_vars
    /\ [][(m_spicount' = SpicountLoad /\ m_spicount # SpicountLoad)
              => (m_fsm = "IDLE" /\ m_fsm' = "RUN")]_vars
    /\ [][(m_tx_r' # m_tx_r /\ m_tx_r' # ShiftIn(m_tx_r, 0))
              => (m_fsm = "IDLE" /\ m_fsm' = "RUN")]_vars

\* A transaction is over in which a go edge arrived in RUN, and its 16 bits
\* of data-out are those of the word captured at its start.
C12_Witness ==
    /\ MDone
    /\ o_nignored = 1 /\ o_nstart = 1 /\ o_nrise = 2
    /\ o_W = 43981 /\ o_mosi_log = BitsOf(43981)

\* C19: the FSM is in RUN exactly when tip_r is 1 and exactly when
\* chip-select is asserted.
C19_RunTipCsnAgree ==
    /\ (m_fsm = "RUN") <=> (m_tip_r = 1)
    /\ (m_tip_r = 1) <=> (csn_r = 0)

\* The last tick of RUN: the three agree, and the host sees tip.
C19_Witness ==
    /\ m_fsm = "RUN" /\ m_tip_r = 1 /\ csn_r = 0
    /\ m_spicount = 0 /\ m_status_tip = 1

\* A 16-bit word after n shifts of Cat(0, x[:15]).
RECURSIVE ShiftedLeft(_, _)
ShiftedLeft(w, n) == IF n = 0 THEN w ELSE ShiftedLeft(ShiftIn(w, 0), n - 1)

\* C20: in RUN the shadow register and data-out are those of the TxWord
\* captured on the go_edge tick, shifted by the number of ticks since: no
\* later write of TxWord shows in them.
C20_OutputFromCapturedWord ==
    m_fsm = "RUN" =>
        /\ m_tx_r = ShiftedLeft(o_W, o_nshift + 1)
        /\ mosi = BitsOf(o_W)[o_nshift + 1]

\* Eight bits into a transaction that sends 43981, the host has just written
\* 0 to TxWord, on a sys edge that found tip_r set.
C20_Witness ==
    /\ m_fsm = "RUN" /\ o_nshift = 8
    /\ o_W = 43981 /\ m_tx_storage = 0 /\ m_tx_re = 1 /\ m_tip_m = 1
    /\ m_tx_r = 39424 /\ mosi = 1

\* C13 as claimed: between frames, whenever rxFull is set RxWord holds the 16
\* bits shifted in during the frame that ended last.
C13_RxFullMeansRxWordValid ==
    (s_rxfull_r = 1 /\ csn = 1 /\ o_frames > 0)
        => s_rx_status = Accumulate(0, o_frame_in)

\* C14: a sys tick on which rx.we is asserted leaves rxfull_r at 0, with
\* chip-select asserted or not and with the done pulse asserted or not.
C14_ReadClearsRxFull ==
    [][(SSysTick /\ s_rx_we = 1) => s_rxfull_r' = 0]_vars

\* The last sys tick saw the done pulse of a frame and a host read of RxWord
\* together, and rxFull is clear.
C14_Witness ==
    /\ o_rd = "done" /\ s_rxfull_r = 0
    /\ csn = 1 /\ s_tip_d = 0 /\ o_frames = 1

\* C15 as claimed: the word in the shift register when chip-select falls for
\* a second or later frame, which is the word shifted out in that frame, is
\* the TxWord that the spislave tick of the previous rise of chip-select
\* loaded.
C15_TxWordCapturedAtFrameEnd ==
    (csn = 0 /\ o_frames > 1) => o_S = o_T

\* C15 as amended: every spislave tick on which chip-select is deasserted
\* loads txrx from tx.storage, so the word shifted out in a frame is the TxWord
\* as stored at the last such tick before chip-select fell; within the frame
\* txrx is that word with the received bits shifted in behind it, and data-out
\* shows its bits, bit 15 first.
C15_ReloadWhileDeasserted ==
    /\ [][(SSlaveTick /\ csn = 1) => s_txrx' = s_tx_storage]_vars
    /\ [](csn = 0 => (o_S = o_L /\ s_txrx = Accumulate(o_S, o_frame_in)))
    /\ []((csn = 0 /\ Len(o_frame_in) < WordBits)
              => miso = BitsOf(o_S)[Len(o_frame_in) + 1])

\* Fifteen bits into the second frame data-out shows bit 0 of 43981, a TxWord
\* stored after the tick that saw the end of the first frame.
C15_Witness ==
    /\ csn = 0 /\ o_frames = 2 /\ Len(o_frame_in) = 15
    /\ o_T = 0 /\ o_L = 43981 /\ o_S = 43981 /\ miso = 1

\* C16 as claimed: every sys tick with tip_r and rxfull_r set leaves
\* rxover_r set, whatever clrerr and rx.we are; and rxover_r rises only on
\* such a tick.
C16_OverrunSetWheneverBusyAndFull ==
    /\ [][(SSysTick /\ s_tip_r = 1 /\ s_rxfull_r = 1) => s_rxover_r' = 1]_vars
    /\ [][(s_rxover_r = 0 /\ s_rxover_r' = 1)
              => (SSysTick /\ s_tip_r = 1 /\ s_rxfull_r = 1)]_vars

\* Nothing of a write of tx is on its way to the FSM: the strobe and both
\* stages of its synchronizer are 0.
TxStrobeDrained == m_tx_re = 0 /\ m_txw_m = 0 /\ m_tx_written = 0

\* C17 as claimed: the host has written a TxWord since reset and no
\* transaction has started; once the write strobe has left the synchronizer,
\* txFull is set.
C17_PendingWriteSetsTxFull ==
    (m_fsm = "IDLE" /\ o_nstart = 0 /\ m_tx_storage # 0 /\ TxStrobeDrained)
        => m_txfull_r = 1

\* C18 as claimed, for chip-select into the slave's sys domain: on the first
\* sys tick that samples a changed chip-select, rxfull_r and rxover_r take
\* the values they would take had chip-select not changed.
C18_FirstSampleHasNoEffect ==
    [][(SSysTick /\ s_tip_r # s_tip_d) =>
          /\ s_rxfull_r' = RxFullNext(s_rx_we, FALSE, s_rxfull_r)
          /\ s_rxover_r' = RxOverNext(s_rx_we, s_tip_d, s_rxfull_r, s_clrerr,
                                      s_rxover_r)]_vars

=============================================================================
